---- MODULE Spec2Model ----
(***************************************************************************)
(* A model of find_commits.py: repository discovery (find_git_repos), the  *)
(* per-repository commit query (search_commits_in_repo, get_repo_branches),*)
(* the per-window scheduler (search_date_range, timeout), the adjacent-date *)
(* expansion session (search_adjacent_dates, display_commits_by_date) and  *)
(* the command line entry point (main).                                    *)
(*                                                                         *)
(* The program is sequential; the only asynchrony is signal delivery:      *)
(* SIGALRM (armed by the timeout context manager) and SIGINT (the operator *)
(* pressing Ctrl-C).  Either may be delivered at any program position; the *)
(* exception then lands in whatever handler encloses that position.        *)
(***************************************************************************)
EXTENDS Integers, Sequences, FiniteSets, TLC

VARIABLES
    top,            \* the function this run executes (the entry point)
    pc,             \* program position
    outcome,        \* how the entry point ended ("running" until then)
    printed,        \* the messages main printed, in order
    \* ---- inputs
    argDate,        \* the --date value: given or not (None), and its text
    argAuthor,      \* the --author value or None
    today,          \* datetime.now().date() as a day ordinal
    rootExists,     \* which of the base directories exist
    gitClass,       \* per directory: has a .git entry, and what Repo(root) says
    backend,        \* per repository path: what the git backend holds and does
    \* ---- main
    search_date,    \* the parsed requested date (day ordinal)
    stats,          \* the SearchStats object
    repos,          \* the list of repository paths
    \* ---- find_git_repos
    baseIdx,        \* index of the current base_dir
    walk,           \* os.walk's pending directories, next first
    visited,        \* the directories os.walk yielded so far, in order
    \* ---- search_adjacent_dates
    all_results, days_to_expand, total_commits, previous_total, seen_commits,
    windows,        \* [before_date, after_date] of the current round
    winIdx,         \* index into windows of the window being searched
    \* ---- search_date_range
    date,           \* the window being searched
    results, range_total, search_times,
    repoIdx,        \* index of the current repo_path
    alarm,          \* SIGALRM: "off", "armed" or "fired"
    returned,       \* what the last completed search_date_range returned
    \* ---- search_commits_in_repo / get_repo_branches
    all_commits, branches, brIdx, result,
    \* ---- history (observation only)
    shown,          \* every display: the lines <<repo, commit, is_new>>
    queried,        \* every search_date_range call: <<round, date>>
    retrieved,      \* <<date, repo path, commit>> a query returned and line 383 merged
    iterCalls,      \* iter_commits calls of this search_date_range call
    timedOut,       \* <<date, repo path>> whose alarm fired in this call
    dialogue,       \* the session's presentations and prompt answers, in order
    invoked,        \* the repo paths this search_date_range call queried, in order
    interrupts,     \* the SIGINTs delivered in this call: where, and what had run
    nSignals        \* signals delivered so far

inputVars == <<argDate, argAuthor, today, rootExists, gitClass, backend>>
mainVars  == <<search_date, stats, repos>>
scanVars  == <<baseIdx, walk, visited>>
sessVars  == <<all_results, days_to_expand, total_commits, previous_total,
               seen_commits, windows, winIdx>>
rangeVars == <<date, results, range_total, search_times, repoIdx, alarm, returned>>
queryVars == <<all_commits, branches, brIdx, result>>
histVars  == <<shown, queried, retrieved, iterCalls, timedOut, dialogue, invoked,
               interrupts>>
sigVars   == <<nSignals>>
ctlVars   == <<top, pc, outcome, printed>>

vars == <<ctlVars, inputVars, mainVars, scanVars, sessVars, rangeVars,
          queryVars, histVars, sigVars>>

None == "None"

(***************************************************************************)
(* Bounds of the model.                                                    *)
(***************************************************************************)
MaxDepth == 1        \* depth of ordinary directories below a base directory
MaxGitDirs == 2      \* directories holding a .git entry
MaxRound == 2        \* expansion rounds the operator accepts
MaxSignals == 1      \* signals (SIGALRM, SIGINT) delivered in one run

(***************************************************************************)
(* Sequence helpers.                                                       *)
(***************************************************************************)
Range(s) == {s[i] : i \in DOMAIN s}

Last(s) == s[Len(s)]

RECURSIVE SeqsUpTo(_, _)
SeqsUpTo(S, n) ==
    IF n = 0 THEN {<<>>}
    ELSE LET shorter == SeqsUpTo(S, n - 1)
         IN shorter \cup {Append(s, x) : s \in shorter, x \in S}

RECURSIVE Concat(_)
Concat(ss) == IF ss = <<>> THEN <<>> ELSE Head(ss) \o Concat(Tail(ss))

Take(s, n) == IF Len(s) <= n THEN s ELSE SubSeq(s, 1, n)

Min(a, b) == IF a <= b THEN a ELSE b

(***************************************************************************)
(* datetime.strptime(date, "%Y-%m-%d") and date ordinals.  A string is a   *)
(* tuple of one-character strings.  The fields are matched as _strptime's  *)
(* regular expressions match them: %Y is four digits; %m is 1[0-2], 0[1-9] *)
(* or [1-9]; %d is 3[01], [12]\d, 0[1-9], [1-9] or a space and [1-9]; the  *)
(* whole string must match; the date must exist in the calendar.           *)
(***************************************************************************)
Digits == {"0", "1", "2", "3", "4", "5", "6", "7", "8", "9"}

DigitVal(ch) ==
    CASE ch = "0" -> 0 [] ch = "1" -> 1 [] ch = "2" -> 2 [] ch = "3" -> 3
      [] ch = "4" -> 4 [] ch = "5" -> 5 [] ch = "6" -> 6 [] ch = "7" -> 7
      [] ch = "8" -> 8 [] ch = "9" -> 9 [] OTHER -> 0

RECURSIVE NumVal(_)
NumVal(f) ==
    IF f = <<>> THEN 0
    ELSE 10 * NumVal(SubSeq(f, 1, Len(f) - 1)) + DigitVal(Last(f))

MatchY(f) == Len(f) = 4 /\ \A i \in 1..4 : f[i] \in Digits

MatchM(f) ==
    \/ Len(f) = 2 /\ f[1] = "1" /\ f[2] \in {"0", "1", "2"}
    \/ Len(f) = 2 /\ f[1] = "0" /\ f[2] \in Digits \ {"0"}
    \/ Len(f) = 1 /\ f[1] \in Digits \ {"0"}

MatchD(f) ==
    \/ Len(f) = 2 /\ f[1] = "3" /\ f[2] \in {"0", "1"}
    \/ Len(f) = 2 /\ f[1] \in {"1", "2"} /\ f[2] \in Digits
    \/ Len(f) = 2 /\ f[1] = "0" /\ f[2] \in Digits \ {"0"}
    \/ Len(f) = 1 /\ f[1] \in Digits \ {"0"}
    \/ Len(f) = 2 /\ f[1] = " " /\ f[2] \in Digits \ {"0"}

IsLeap(y) == (y % 4 = 0 /\ y % 100 # 0) \/ y % 400 = 0

DaysInMonth(y, m) ==
    IF m = 2 THEN (IF IsLeap(y) THEN 29 ELSE 28)
    ELSE IF m \in {4, 6, 9, 11} THEN 30 ELSE 31

RECURSIVE DaysBeforeMonth(_, _)
DaysBeforeMonth(y, m) ==
    IF m = 1 THEN 0 ELSE DaysBeforeMonth(y, m - 1) + DaysInMonth(y, m - 1)

\* date.toordinal(): day 1 is 0001-01-01
Ordinal(y, m, d) ==
    LET py == y - 1
    IN py * 365 + (py \div 4) - (py \div 100) + (py \div 400)
       + DaysBeforeMonth(y, m) + d

Splits(s) ==
    {ij \in (1..Len(s)) \X (1..Len(s)) :
        /\ ij[1] < ij[2]
        /\ s[ij[1]] = "-" /\ s[ij[2]] = "-"
        /\ MatchY(SubSeq(s, 1, ij[1] - 1))
        /\ MatchM(SubSeq(s, ij[1] + 1, ij[2] - 1))
        /\ MatchD(SubSeq(s, ij[2] + 1, Len(s)))}

\* ok with <<year, month, day>>, or not ok: a ValueError
ValueError == [ok |-> FALSE, ymd |-> <<>>]

strptime(s) ==
    IF Splits(s) = {} THEN ValueError
    ELSE LET ij == CHOOSE x \in Splits(s) : TRUE
             y == NumVal(SubSeq(s, 1, ij[1] - 1))
             m == NumVal(SubSeq(s, ij[1] + 1, ij[2] - 1))
             d == NumVal(SubSeq(s, ij[2] + 1, Len(s)))
         IN IF y < 1 \/ d > DaysInMonth(y, m) THEN ValueError
            ELSE [ok |-> TRUE, ymd |-> <<y, m, d>>]

(***************************************************************************)
(* The file system find_git_repos walks.  A path is a sequence of names.   *)
(* The ordinary directories are the base directories and everything up to  *)
(* MaxDepth below them; a directory with a .git entry also holds .git and  *)
(* .git/objects.                                                           *)
(***************************************************************************)
DEFAULT_SEARCH_DIRS == << <<"code">>, <<"projects">> >>

SKIP_DIRS ==
    {"node_modules", "vendor", "tmp", "temp", "dist", "build", "target", "venv",
     ".venv", ".env", "__pycache__", ".next", ".cache", "coverage", "logs"}

DirNames == {"proj", "node_modules"}

ListOrder == <<".git", "node_modules", "proj", "objects">>

OrdinaryDirs ==
    {b \o s : b \in Range(DEFAULT_SEARCH_DIRS), s \in SeqsUpTo(DirNames, MaxDepth)}

GitClasses == {"valid", "bare", "invalid"}

HasGit(p) == p \in OrdinaryDirs /\ gitClass[p] # "none"

IsDir(p) ==
    \/ p \in OrdinaryDirs /\ rootExists[<<p[1]>>]
    \/ /\ Len(p) >= 2 /\ Last(p) = ".git"
       /\ HasGit(SubSeq(p, 1, Len(p) - 1))
       /\ rootExists[<<p[1]>>]
    \/ /\ Len(p) >= 3 /\ Last(p) = "objects" /\ p[Len(p) - 1] = ".git"
       /\ HasGit(SubSeq(p, 1, Len(p) - 2))
       /\ rootExists[<<p[1]>>]

\* the dirs list os.walk yields for root
Children(root) ==
    LET IsChild(n) == IsDir(Append(root, n))
    IN SelectSeq(ListOrder, IsChild)

\* Path(p).name
PathName(p) == Last(p)

SearchStats ==
    [repo_search_times |-> <<>>, total_dirs_scanned |-> 0, total_dirs_skipped |-> 0,
     total_git_dirs_found |-> 0, invalid_git_dirs |-> 0, bare_repos |-> 0]

(***************************************************************************)
(* The git backend.  Each repository path has refs (ref names are paths,   *)
(* "origin/HEAD" is <<"origin", "HEAD">>), the commits reachable from each *)
(* ref, and the failures the backend raises there.  A commit has an        *)
(* identifier (hexsha), an author and a commit time.                       *)
(***************************************************************************)
Commits == {"c1", "c2", "c3", "c4"}

Author == "x"

CommitAuthor(c) == IF c = "c4" THEN "y" ELSE "x"

\* days from today to the commit's day (committed_date)
CommitOffset(c) == CASE c = "c1" -> -1 [] c = "c2" -> 0 [] c = "c3" -> -1 [] c = "c4" -> 0

\* order of commit times within one day: later commits have the larger value
CommitSecond(c) == CASE c = "c1" -> 1 [] c = "c2" -> 2 [] c = "c3" -> 3 [] c = "c4" -> 4

CommitDay(c) == today + CommitOffset(c)

\* git rev-list lists in reverse chronological order
RevListOrder == <<"c4", "c2", "c3", "c1">>

RefNames == { <<"main">>, <<"feature">>, <<"origin", "HEAD">> }

RefOrder == << <<"feature">>, <<"main">>, <<"origin", "HEAD">> >>

common_branches == << <<"main">>, <<"master">>, <<"dev">>, <<"development">> >>

NoRepo ==
    [refs |-> <<>>, refsRaise |-> FALSE, heads |-> [r \in RefNames |-> {}],
     allFails |-> FALSE, branchFails |-> {}, openFails |-> FALSE]

\* ref.name.endswith('/HEAD')
EndsWithHEAD(name) == Len(name) >= 2 /\ Last(name) = "HEAD"

\* since <= committed <= until, the window being one calendar day
InWindow(c, day) == CommitDay(c) = day

Matches(c, author, day) == CommitAuthor(c) = author /\ InWindow(c, day)

ITER_ALL_MAX_COUNT == 100
ITER_BRANCH_MAX_COUNT == 50

\* repo.iter_commits(all=True, author, since, until, max_count=100)
IterCommitsAll(b, author, day) ==
    LET reach == UNION {b.heads[r] : r \in Range(b.refs)}
        Hit(c) == c \in reach /\ Matches(c, author, day)
    IN Take(SelectSeq(RevListOrder, Hit), ITER_ALL_MAX_COUNT)

\* repo.iter_commits(branch, author, since, until, max_count=50)
IterCommitsBranch(b, branch, author, day) ==
    LET Hit(c) == c \in b.heads[branch] /\ Matches(c, author, day)
    IN Take(SelectSeq(RevListOrder, Hit), ITER_BRANCH_MAX_COUNT)

\* list({commit.hexsha: commit for commit in all_commits}.values())
RECURSIVE DedupFrom(_, _)
DedupFrom(s, acc) ==
    IF s = <<>> THEN acc
    ELSE DedupFrom(Tail(s), IF Head(s) \in Range(acc) THEN acc ELSE Append(acc, Head(s)))

\* a merge that keeps every retrieved instance
all_commits_undeduplicated(cs) == cs

unique_commits(cs) == DedupFrom(cs, <<>>)

NoResult == [found |-> FALSE, name |-> "", commits |-> <<>>]

(***************************************************************************)
(* Dictionaries (dict, defaultdict(list)): a sequence of [k, v] entries in *)
(* insertion order.                                                        *)
(***************************************************************************)
DictKeys(d) == [i \in DOMAIN d |-> d[i].k]

DictHas(d, key) == \E i \in DOMAIN d : d[i].k = key

DictGet(d, key) ==
    IF DictHas(d, key) THEN d[CHOOSE i \in DOMAIN d : d[i].k = key].v ELSE <<>>

DictSet(d, key, val) ==
    IF DictHas(d, key)
    THEN [i \in DOMAIN d |-> IF d[i].k = key THEN [k |-> key, v |-> val] ELSE d[i]]
    ELSE Append(d, [k |-> key, v |-> val])

\* d[key].extend(items) on a defaultdict(list)
DictExtend(d, key, items) == DictSet(d, key, DictGet(d, key) \o items)

\* d.update(other)
RECURSIVE DictUpdate(_, _)
DictUpdate(d, other) ==
    IF other = <<>> THEN d
    ELSE DictUpdate(DictSet(d, Head(other).k, Head(other).v), Tail(other))

(***************************************************************************)
(* display_commits_by_date: the commits of each repository grouped by day, *)
(* days ascending, within a day the latest commit first; a commit is       *)
(* flagged new when its hexsha is not in seen_commits, and is then added.  *)
(***************************************************************************)
\* a is displayed before b
DisplayedBefore(a, b) ==
    \/ CommitDay(a) < CommitDay(b)
    \/ CommitDay(a) = CommitDay(b) /\ CommitSecond(a) > CommitSecond(b)

\* sorted() is stable: x goes after every element that is not after it
RECURSIVE InsertSorted(_, _)
InsertSorted(s, x) ==
    IF s = <<>> THEN <<x>>
    ELSE IF DisplayedBefore(x, Head(s)) THEN <<x>> \o s
    ELSE <<Head(s)>> \o InsertSorted(Tail(s), x)

RECURSIVE SortCommits(_)
SortCommits(cs) ==
    IF cs = <<>> THEN <<>>
    ELSE InsertSorted(SortCommits(SubSeq(cs, 1, Len(cs) - 1)), Last(cs))

DisplayOrder(res) ==
    Concat([i \in DOMAIN res |->
              LET sorted == SortCommits(res[i].v)
              IN [j \in DOMAIN sorted |-> <<res[i].k, sorted[j]>>]])

\* lines 263-267: flag each line, growing seen
RECURSIVE FlagNew(_, _, _)
FlagNew(lines, seen, out) ==
    IF lines = <<>> THEN [lines |-> out, seen |-> seen]
    ELSE LET c == Head(lines)[2]
             is_new == c \notin seen
         IN FlagNew(Tail(lines),
                    IF is_new THEN seen \cup {c} ELSE seen,
                    Append(out, <<Head(lines)[1], c, is_new>>))

display_commits_by_date(res, seen) ==
    LET flagged == FlagNew(DisplayOrder(res), seen, <<>>)
    IN [lines |-> flagged.lines, seen |-> flagged.seen,
        total |-> Len(flagged.lines)]

(***************************************************************************)
(* How a run ends.  A function run on its own ends "returned" or with the  *)
(* exception that left it; main ends by returning, by sys.exit(0) or with  *)
(* an exception nothing caught.                                            *)
(***************************************************************************)
Finish(how) == /\ pc' = "done" /\ outcome' = how

\* main's handlers, lines 470-486: phase is "discovery" (line 458, inside the
\* outer try only) or "search" (line 471, inside both).
MainCatches(phase, exc) ==
    \/ exc = "KeyboardInterrupt"
    \/ exc = "SearchCancelled" /\ phase = "search"

\* an exception leaves the entry point's callee fn, raised to its caller
Raise(fn, phase, exc) ==
    IF top = fn THEN Finish(exc) /\ printed' = printed
    ELSE IF MainCatches(phase, exc)
         THEN Finish("exit 0") /\ printed' = Append(printed, "Search cancelled by user")
         ELSE Finish("uncaught " \o exc) /\ printed' = printed

(***************************************************************************)
(* find_git_repos                                                          *)
(***************************************************************************)
\* lines 68-73: the next base_dir; a missing one is skipped
ScanBase ==
    /\ pc = "scan" /\ walk = <<>> /\ baseIdx <= Len(DEFAULT_SEARCH_DIRS)
    /\ LET base_dir == DEFAULT_SEARCH_DIRS[baseIdx]
       IN walk' = IF rootExists[base_dir] THEN <<base_dir>> ELSE <<>>
    /\ baseIdx' = baseIdx + 1
    /\ UNCHANGED <<ctlVars, inputVars, mainVars, visited, sessVars, rangeVars,
                   queryVars, histVars, sigVars>>

\* lines 98-99: the children left for os.walk to descend into
Pruned(dirs) == SelectSeq(dirs, LAMBDA d : d \notin SKIP_DIRS)

\* the loop without line 88: a bare repository is found but not counted
ScanVisitWithoutBareCount ==
    /\ pc = "scan" /\ walk # <<>>
    /\ LET root == Head(walk)
           dirs == Children(root)
           isGit == IsDir(Append(root, ".git"))
           cls == IF isGit THEN gitClass[root] ELSE "none"
           kept == IF cls = "invalid" THEN dirs ELSE Pruned(dirs)
       IN /\ stats' = [stats EXCEPT
                 !.total_dirs_scanned = @ + 1,
                 !.total_git_dirs_found = IF isGit THEN @ + 1 ELSE @,
                 !.invalid_git_dirs = IF cls = "invalid" THEN @ + 1 ELSE @,
                 !.total_dirs_skipped = @ + Cardinality(Range(dirs)) - Len(kept)]
          /\ repos' = IF cls = "valid" THEN Append(repos, root) ELSE repos
          /\ walk' = [i \in DOMAIN kept |-> Append(root, kept[i])] \o Tail(walk)
          /\ visited' = Append(visited, root)
    /\ UNCHANGED <<ctlVars, inputVars, search_date, baseIdx, sessVars, rangeVars,
                   queryVars, histVars, sigVars>>

\* lines 75-100: one iteration of the os.walk loop
ScanVisit ==
    /\ pc = "scan" /\ walk # <<>>
    /\ LET root == Head(walk)
           dirs == Children(root)
           isGit == IsDir(Append(root, ".git"))
           cls == IF isGit THEN gitClass[root] ELSE "none"
           \* line 95: an invalid repository skips the pruning
           kept == IF cls = "invalid" THEN dirs ELSE Pruned(dirs)
       IN /\ stats' = [stats EXCEPT
                 !.total_dirs_scanned = @ + 1,
                 !.total_git_dirs_found = IF isGit THEN @ + 1 ELSE @,
                 !.bare_repos = IF cls = "bare" THEN @ + 1 ELSE @,
                 !.invalid_git_dirs = IF cls = "invalid" THEN @ + 1 ELSE @,
                 !.total_dirs_skipped = @ + Cardinality(Range(dirs)) - Len(kept)]
          /\ repos' = IF cls = "valid" THEN Append(repos, root) ELSE repos
          /\ walk' = [i \in DOMAIN kept |-> Append(root, kept[i])] \o Tail(walk)
          /\ visited' = Append(visited, root)
    /\ UNCHANGED <<ctlVars, inputVars, search_date, baseIdx, sessVars, rangeVars,
                   queryVars, histVars, sigVars>>

\* lines 102-103: Ctrl-C anywhere in the walk
ScanInterrupt ==
    /\ pc = "scan" /\ nSignals < MaxSignals
    /\ nSignals' = nSignals + 1
    /\ Raise("find_git_repos", "discovery", "SearchCancelled")
    /\ UNCHANGED <<top, inputVars, mainVars, scanVars, sessVars, rangeVars,
                   queryVars, histVars>>

\* lines 105-110, and main's lines 458-466
ScanReturn ==
    /\ pc = "scan" /\ walk = <<>> /\ baseIdx > Len(DEFAULT_SEARCH_DIRS)
    /\ IF top = "find_git_repos" THEN Finish("returned") /\ printed' = printed
       ELSE IF repos = <<>>
            THEN Finish("returned") /\ printed' = Append(printed, "No Git repositories found.")
            ELSE /\ pc' = "sad_start" /\ outcome' = outcome
                 /\ printed' = Append(printed, "Phase 2: Commit Search")
    /\ UNCHANGED <<top, inputVars, mainVars, scanVars, sessVars, rangeVars,
                   queryVars, histVars, sigVars>>

(***************************************************************************)
(* main                                                                    *)
(***************************************************************************)
\* lines 423-433 and 445: validation, then the start of discovery
MainStart ==
    /\ pc = "main"
    /\ LET parsed == strptime(argDate.text)
           \* "if date": None and the empty string both take datetime.now()
           useNow == ~argDate.given \/ argDate.text = <<>>
       IN IF argAuthor \in {None, ""}
          THEN /\ Finish("returned")
               /\ printed' = Append(printed, "Error: --author/-a option is required")
               /\ UNCHANGED <<search_date, stats>>
          ELSE IF ~useNow /\ ~parsed.ok
          THEN /\ Finish("returned")
               /\ printed' = Append(printed, "Error: Invalid date format. Please use YYYY-MM-DD")
               /\ stats' = SearchStats
               /\ UNCHANGED search_date
          ELSE /\ pc' = "scan" /\ outcome' = outcome
               /\ printed' = Append(printed, "Phase 1: Repository Discovery")
               /\ stats' = SearchStats
               /\ search_date' = IF useNow THEN today
                                 ELSE Ordinal(parsed.ymd[1], parsed.ymd[2], parsed.ymd[3])
    /\ UNCHANGED <<top, inputVars, repos, scanVars, sessVars, rangeVars,
                   queryVars, histVars, sigVars>>

(***************************************************************************)
(* search_commits_in_repo and get_repo_branches                            *)
(***************************************************************************)
repo_path == repos[repoIdx]

Backend == backend[repo_path]

\* search_commits_in_repo returns res to search_date_range (line 374)
QueryReturn(res) ==
    /\ result' = res
    /\ IF top = "search_commits_in_repo" THEN Finish("returned")
       ELSE pc' = "r_record" /\ outcome' = outcome

\* lines 138-140: Repo(repo_path); a failure lands in line 194
QOpen ==
    /\ pc = "q_open"
    /\ IF Backend.openFails THEN QueryReturn(NoResult)
       ELSE pc' = "q_size" /\ UNCHANGED <<outcome, result>>
    /\ UNCHANGED <<top, printed, inputVars, mainVars, scanVars, sessVars, rangeVars,
                   all_commits, branches, brIdx, histVars, sigVars>>

\* lines 143-155: the size warning changes nothing
QSize ==
    /\ pc = "q_size"
    /\ pc' = "gb_open"
    /\ UNCHANGED <<top, outcome, printed, inputVars, mainVars, scanVars, sessVars,
                   rangeVars, queryVars, histVars, sigVars>>

\* lines 114-116 (and 132-133)
GbOpen ==
    /\ pc = "gb_open"
    /\ IF Backend.openFails THEN pc' = "q_check" ELSE pc' = "gb_refs"
    /\ branches' = <<>>
    /\ UNCHANGED <<top, outcome, printed, inputVars, mainVars, scanVars, sessVars,
                   rangeVars, all_commits, brIdx, result, histVars, sigVars>>

\* lines 117-122: every ref name that does not end with /HEAD
GbRefs ==
    /\ pc = "gb_refs"
    /\ branches' = IF Backend.refsRaise THEN <<>>
                   ELSE SelectSeq(Backend.refs, LAMBDA n : ~EndsWithHEAD(n))
    /\ brIdx' = 1
    /\ pc' = IF branches' = <<>> THEN "gb_probe" ELSE "q_check"
    /\ UNCHANGED <<top, outcome, printed, inputVars, mainVars, scanVars, sessVars,
                   rangeVars, all_commits, result, histVars, sigVars>>

\* lines 124-129: one of the common branch names
GbProbe ==
    /\ pc = "gb_probe"
    /\ LET branch == common_branches[brIdx]
       IN branches' = IF ~Backend.refsRaise /\ branch \in Range(Backend.refs)
                      THEN Append(branches, branch) ELSE branches
    /\ brIdx' = brIdx + 1
    /\ pc' = IF brIdx' > Len(common_branches) THEN "q_check" ELSE "gb_probe"
    /\ UNCHANGED <<top, outcome, printed, inputVars, mainVars, scanVars, sessVars,
                   rangeVars, all_commits, result, histVars, sigVars>>

\* the query without the early return for an empty branch list
QCheckWithoutGuard ==
    /\ pc = "q_check"
    /\ all_commits' = <<>>
    /\ pc' = "q_iter_all" /\ UNCHANGED <<outcome, result>>
    /\ UNCHANGED <<top, printed, inputVars, mainVars, scanVars, sessVars, rangeVars,
                   branches, brIdx, histVars, sigVars>>

\* lines 157-161
QCheck ==
    /\ pc = "q_check"
    /\ all_commits' = <<>>
    /\ IF branches = <<>> THEN QueryReturn(NoResult)
       ELSE pc' = "q_iter_all" /\ UNCHANGED <<outcome, result>>
    /\ UNCHANGED <<top, printed, inputVars, mainVars, scanVars, sessVars, rangeVars,
                   branches, brIdx, histVars, sigVars>>

\* lines 164-175: all refs at once; a failure starts the per-branch fallback
QIterAll ==
    /\ pc = "q_iter_all"
    /\ iterCalls' = Append(iterCalls, <<repo_path, <<"--all">> >>)
    /\ IF Backend.allFails
       THEN /\ pc' = "q_iter_branch" /\ brIdx' = 1
            /\ UNCHANGED all_commits
       ELSE /\ pc' = "q_dedup"
            /\ all_commits' = all_commits \o IterCommitsAll(Backend, Author, date)
            /\ UNCHANGED brIdx
    /\ UNCHANGED <<top, outcome, printed, inputVars, mainVars, scanVars, sessVars,
                   rangeVars, branches, result, shown, queried, retrieved, timedOut,
                   dialogue, invoked, interrupts, sigVars>>

\* the fallback without the inner try: a failing branch ends the query at line 194
QIterBranchWithoutSkip ==
    /\ pc = "q_iter_branch"
    /\ LET branch == branches[brIdx]
           fails == branch \in Backend.branchFails \/ branch \notin Range(Backend.refs)
       IN /\ iterCalls' = Append(iterCalls, <<repo_path, branch>>)
          /\ all_commits' =
                IF fails THEN all_commits
                ELSE all_commits \o IterCommitsBranch(Backend, branch, Author, date)
          /\ brIdx' = brIdx + 1
          /\ IF fails THEN QueryReturn(NoResult)
             ELSE /\ pc' = IF brIdx' > Len(branches) THEN "q_dedup" ELSE "q_iter_branch"
                  /\ UNCHANGED <<outcome, result>>
    /\ UNCHANGED <<top, printed, inputVars, mainVars, scanVars, sessVars,
                   rangeVars, branches, shown, queried, retrieved, timedOut,
                   dialogue, invoked, interrupts, sigVars>>

\* lines 176-187: one branch of the fallback; a failing branch is skipped
QIterBranch ==
    /\ pc = "q_iter_branch"
    /\ LET branch == branches[brIdx]
       IN /\ iterCalls' = Append(iterCalls, <<repo_path, branch>>)
          /\ all_commits' =
                IF branch \in Backend.branchFails \/ branch \notin Range(Backend.refs)
                THEN all_commits
                ELSE all_commits \o IterCommitsBranch(Backend, branch, Author, date)
    /\ brIdx' = brIdx + 1
    /\ pc' = IF brIdx' > Len(branches) THEN "q_dedup" ELSE "q_iter_branch"
    /\ UNCHANGED <<top, outcome, printed, inputVars, mainVars, scanVars, sessVars,
                   rangeVars, branches, result, shown, queried, retrieved, timedOut,
                   dialogue, invoked, interrupts, sigVars>>

\* lines 189-193
QDedup ==
    /\ pc = "q_dedup"
    /\ LET unique == unique_commits(all_commits)
       IN QueryReturn(IF unique # <<>>
                      THEN [found |-> TRUE, name |-> PathName(repo_path), commits |-> unique]
                      ELSE NoResult)
    /\ UNCHANGED <<top, printed, inputVars, mainVars, scanVars, sessVars, rangeVars,
                   all_commits, branches, brIdx, histVars, sigVars>>

(***************************************************************************)
(* search_date_range: the loop over repos, each query under timeout(30)    *)
(***************************************************************************)
EmptyReturn == [results |-> <<>>, total |-> 0, times |-> <<>>]

\* lines 364-373 and 398: the next repository, or the return
RLoop ==
    /\ pc = "r_loop"
    /\ IF repoIdx > Len(repos)
       THEN /\ returned' = [results |-> results, total |-> range_total,
                            times |-> search_times]
            /\ IF top = "search_date_range" THEN Finish("returned")
               ELSE pc' = "sad_merge" /\ outcome' = outcome
            /\ UNCHANGED <<alarm, invoked>>
       ELSE /\ alarm' = "armed"
            /\ invoked' = Append(invoked, repo_path)
            /\ pc' = "q_open"
            /\ UNCHANGED <<outcome, returned>>
    /\ UNCHANGED <<top, printed, inputVars, mainVars, scanVars, sessVars, date,
                   results, range_total, search_times, repoIdx, queryVars, shown,
                   queried, retrieved, iterCalls, timedOut, dialogue, interrupts,
                   sigVars>>

\* line 375: the elapsed time, here the repository it was measured for and
\* whether the 30 seconds had passed (the alarm fired before the query returned)
search_time == <<repo_path, alarm = "fired">>

\* lines 375-379
RRecord ==
    /\ pc = "r_record"
    /\ search_times' = Append(search_times, search_time)
    /\ stats' = [stats EXCEPT !.repo_search_times = Append(@, search_time)]
    /\ pc' = "r_merge"
    /\ UNCHANGED <<top, outcome, printed, inputVars, search_date, repos, scanVars,
                   sessVars, date, results, range_total, repoIdx, alarm, returned,
                   queryVars, histVars, sigVars>>

\* lines 381-386
RMerge ==
    /\ pc = "r_merge"
    /\ IF result.found
       THEN /\ results' = DictExtend(results, result.name, result.commits)
            /\ range_total' = range_total + Len(result.commits)
            /\ retrieved' = retrieved \cup
                    {<<date, repo_path, c>> : c \in Range(result.commits)}
       ELSE UNCHANGED <<results, range_total, retrieved>>
    /\ pc' = "r_exit"
    /\ UNCHANGED <<top, outcome, printed, inputVars, mainVars, scanVars, sessVars,
                   date, search_times, repoIdx, alarm, returned, queryVars, shown,
                   queried, iterCalls, timedOut, dialogue, invoked, interrupts,
                   sigVars>>

\* lines 412-413 and 393: timeout.__exit__, progress.advance
RExit ==
    /\ pc = "r_exit"
    /\ alarm' = "off"
    /\ repoIdx' = repoIdx + 1
    /\ pc' = "r_loop"
    /\ UNCHANGED <<top, outcome, printed, inputVars, mainVars, scanVars, sessVars,
                   date, results, range_total, search_times, returned, queryVars,
                   histVars, sigVars>>

(***************************************************************************)
(* search_adjacent_dates                                                   *)
(***************************************************************************)
\* a call of search_date_range(repos, day, ...) in round k: lines 344-363
BeginRange(day, k) ==
    /\ date' = day
    /\ results' = <<>>
    /\ range_total' = 0
    /\ search_times' = <<>>
    /\ repoIdx' = 1
    /\ queried' = Append(queried, <<k, day>>)
    /\ iterCalls' = <<>>
    /\ timedOut' = {}
    /\ invoked' = <<>>
    /\ interrupts' = <<>>
    /\ pc' = "r_loop"

\* lines 302-307 and 310: the two windows of round k
before_date(day, k) == day - k

\* the later window without the clamp to today
after_date_unclamped(day, k, now) == day + k

after_date(day, k, now) == IF day + k > now THEN now ELSE day + k

ExpansionWindows(day, k, now) == <<before_date(day, k), after_date(day, k, now)>>

\* a merge that keeps only the window's result
MergeReplacing(all, res, seen) == res

\* lines 317-318: all_results[repo].extend(c for c in commits if not seen)
RECURSIVE MergeNew(_, _, _)
MergeNew(all, res, seen) ==
    IF res = <<>> THEN all
    ELSE MergeNew(DictExtend(all, Head(res).k,
                             SelectSeq(Head(res).v, LAMBDA c : c \notin seen)),
                  Tail(res), seen)

\* a display called without the session's seen set (seen_commits=None)
DisplayWithoutSeen(all) ==
    LET d == display_commits_by_date(all, {})
    IN /\ total_commits' = d.total
       /\ seen_commits' = seen_commits
       /\ shown' = Append(shown, d.lines)

\* a call of display_commits_by_date(all, seen_commits), lines 286, 324, 337
Display(all) ==
    LET d == display_commits_by_date(all, seen_commits)
    IN /\ total_commits' = d.total
       /\ seen_commits' = d.seen
       /\ shown' = Append(shown, d.lines)

\* what the operator types at the prompt of line 295
Typed == {"y", "Y", "", "n", "yes"}

\* str.lower() of what may be typed
Lower(text) == IF text = "Y" THEN "y" ELSE text

\* Prompt.ask(prompt, default="y").lower(): an empty line is the default
PromptAsk(typed) == Lower(IF typed = "" THEN "y" ELSE typed)

\* a prompt that takes every answer for consent
AcceptsAnything(response) == TRUE

\* line 296: only exactly "y" continues
Accepts(response) == response = "y"

\* the results of round k are on the screen (lines 286-289, 322-330)
Presented(k, all, seen) ==
    [ev |-> "presented", round |-> k, response |-> "", cumulative |-> all,
     seen |-> seen]

\* the operator answered the prompt for round days_to_expand
Answered(response) ==
    [ev |-> "answer", round |-> days_to_expand, response |-> response,
     cumulative |-> all_results, seen |-> seen_commits]

\* lines 273-284: the locals, then the search of the requested date
SadStart ==
    /\ pc = "sad_start"
    /\ all_results' = <<>>
    /\ days_to_expand' = 1
    /\ total_commits' = 0
    /\ previous_total' = 0
    /\ seen_commits' = {}
    /\ winIdx' = 0
    /\ BeginRange(search_date, 0)
    /\ UNCHANGED <<top, outcome, printed, inputVars, mainVars, scanVars, windows,
                   alarm, returned, queryVars, shown, retrieved, dialogue, sigVars>>

\* lines 285-289 after the first search; lines 316-318 after a window of a round
SadMerge ==
    /\ pc = "sad_merge"
    /\ IF winIdx = 0
       THEN /\ all_results' = DictUpdate(all_results, returned.results)
            /\ Display(all_results')
            /\ dialogue' = Append(dialogue, Presented(0, all_results', seen_commits'))
            /\ pc' = "prompt"
            /\ UNCHANGED <<winIdx, date, results, range_total, search_times, repoIdx,
                           queried, iterCalls, timedOut, invoked, interrupts>>
       ELSE /\ all_results' = MergeNew(all_results, returned.results, seen_commits)
            /\ UNCHANGED <<total_commits, seen_commits, shown, dialogue>>
            /\ IF winIdx < Len(windows)
               THEN /\ winIdx' = winIdx + 1
                    /\ BeginRange(windows[winIdx + 1], days_to_expand)
               ELSE /\ pc' = "sad_present"
                    /\ UNCHANGED <<winIdx, date, results, range_total, search_times,
                                   repoIdx, queried, iterCalls, timedOut, invoked,
                                   interrupts>>
    /\ UNCHANGED <<top, outcome, printed, inputVars, mainVars, scanVars,
                   days_to_expand, previous_total, windows, alarm, returned, queryVars,
                   retrieved, sigVars>>

\* lines 322-332
SadPresent ==
    /\ pc = "sad_present"
    /\ IF all_results # <<>> THEN Display(all_results)
       ELSE UNCHANGED <<total_commits, seen_commits, shown>>
    /\ dialogue' = Append(dialogue, Presented(days_to_expand, all_results, seen_commits'))
    /\ days_to_expand' = days_to_expand + 1
    /\ pc' = "prompt"
    /\ UNCHANGED <<top, outcome, printed, inputVars, mainVars, scanVars, all_results,
                   previous_total, windows, winIdx, rangeVars, queryVars, queried,
                   retrieved, iterCalls, timedOut, invoked, interrupts, sigVars>>

\* lines 292-297 and 340: any answer but "y" ends the session
PromptDecline ==
    /\ pc = "prompt"
    /\ previous_total' = total_commits
    /\ \E typed \in Typed :
          /\ ~Accepts(PromptAsk(typed))
          /\ dialogue' = Append(dialogue, Answered(PromptAsk(typed)))
    /\ Finish("returned")
    /\ UNCHANGED <<top, printed, inputVars, mainVars, scanVars, all_results,
                   days_to_expand, total_commits, seen_commits, windows, winIdx,
                   rangeVars, queryVars, shown, queried, retrieved, iterCalls,
                   timedOut, invoked, interrupts, sigVars>>

\* lines 292-315: "y" starts round days_to_expand with its first window
PromptAccept ==
    /\ pc = "prompt"
    /\ days_to_expand <= MaxRound
    /\ \E typed \in Typed :
          /\ Accepts(PromptAsk(typed))
          /\ dialogue' = Append(dialogue, Answered(PromptAsk(typed)))
    /\ previous_total' = total_commits
    /\ windows' = ExpansionWindows(search_date, days_to_expand, today)
    /\ winIdx' = 1
    /\ BeginRange(windows'[1], days_to_expand)
    /\ UNCHANGED <<top, outcome, printed, inputVars, mainVars, scanVars, all_results,
                   days_to_expand, total_commits, seen_commits, alarm, returned,
                   queryVars, shown, retrieved, sigVars>>

\* lines 334-338: what was accumulated is displayed, SearchCancelled goes on
SadCancelled ==
    /\ pc = "sad_cancelled"
    /\ IF all_results # <<>> THEN Display(all_results)
       ELSE UNCHANGED <<total_commits, seen_commits, shown>>
    /\ Raise("search_adjacent_dates", "search", "SearchCancelled")
    /\ UNCHANGED <<top, inputVars, mainVars, scanVars, all_results, days_to_expand,
                   previous_total, windows, winIdx, rangeVars, queryVars, queried,
                   retrieved, iterCalls, timedOut, dialogue, invoked, interrupts,
                   sigVars>>

(***************************************************************************)
(* Signals.  An exception raised at a position lands in the innermost      *)
(* handler around it.  The bare "except:" clauses of get_repo_branches and *)
(* search_commits_in_repo (lines 119, 128, 132, 154, 174, 186) catch       *)
(* everything, TimeoutError and KeyboardInterrupt included; "except        *)
(* Exception" (line 194) catches TimeoutError but not KeyboardInterrupt.   *)
(***************************************************************************)
InBareExcept == {"q_size", "gb_open", "gb_refs", "gb_probe", "q_iter_all", "q_iter_branch"}
InExceptException == {"q_open", "q_check", "q_dedup"}
InWithBlock == {"r_record", "r_merge", "r_exit"}
InQuery == InBareExcept \cup InExceptException
InRange == InQuery \cup InWithBlock \cup {"r_loop"}
InSession == {"sad_start", "sad_merge", "sad_present", "prompt", "sad_cancelled"}

\* where execution goes on after a bare except swallowed an exception
AfterBareExcept ==
    CASE pc = "q_size" -> /\ pc' = "gb_open" /\ UNCHANGED <<branches, brIdx>>
      [] pc = "gb_open" -> /\ pc' = "q_check" /\ branches' = <<>> /\ UNCHANGED brIdx
      [] pc = "gb_refs" -> /\ pc' = "gb_probe" /\ branches' = <<>> /\ brIdx' = 1
      [] pc = "gb_probe" ->
            /\ brIdx' = brIdx + 1
            /\ pc' = IF brIdx' > Len(common_branches) THEN "q_check" ELSE "gb_probe"
            /\ UNCHANGED branches
      [] pc = "q_iter_all" -> /\ pc' = "q_iter_branch" /\ brIdx' = 1 /\ UNCHANGED branches
      [] pc = "q_iter_branch" ->
            /\ brIdx' = brIdx + 1
            /\ pc' = IF brIdx' > Len(branches) THEN "q_dedup" ELSE "q_iter_branch"
            /\ UNCHANGED branches

\* lines 390-391 and 395-396, then 319-320: SearchCancelled leaves the loop
CancelRange ==
    /\ alarm' = "off"
    /\ IF top = "search_date_range" THEN Finish("SearchCancelled")
       ELSE pc' = "sad_cancelled" /\ outcome' = outcome

\* a loop without the handler of line 387: TimeoutError leaves search_date_range
TimeoutUncaught ==
    /\ Finish("TimeoutError") /\ repoIdx' = repoIdx /\ alarm' = "off"

\* lines 387-389, 412-413 and 393: the repository is given up, the loop goes on
TimeoutHandler ==
    /\ pc' = "r_loop" /\ outcome' = outcome /\ repoIdx' = repoIdx + 1 /\ alarm' = "off"

\* SIGALRM, lines 405-406: TimeoutError at the current position
SigAlarm ==
    /\ alarm = "armed" /\ nSignals < MaxSignals
    /\ pc \in InQuery \cup InWithBlock
    /\ nSignals' = nSignals + 1
    /\ timedOut' = timedOut \cup {<<date, repo_path>>}
    /\ IF pc \in InBareExcept
       THEN /\ AfterBareExcept /\ alarm' = "fired"
            /\ UNCHANGED <<outcome, result, repoIdx>>
       ELSE IF pc \in InExceptException
       THEN /\ QueryReturn(NoResult) /\ alarm' = "fired"
            /\ UNCHANGED <<branches, brIdx, repoIdx>>
       ELSE /\ TimeoutHandler
            /\ UNCHANGED <<result, branches, brIdx>>
    /\ UNCHANGED <<top, printed, inputVars, mainVars, scanVars, sessVars, date,
                   results, range_total, search_times, returned, all_commits, shown,
                   queried, retrieved, iterCalls, dialogue, invoked, interrupts>>

\* SIGINT: KeyboardInterrupt at the current position
SigInt ==
    /\ nSignals < MaxSignals
    /\ pc \in InRange \cup InSession
    /\ nSignals' = nSignals + 1
    /\ interrupts' = Append(interrupts, [pos |-> pc, calls |-> Len(iterCalls),
                                         queries |-> Len(invoked)])
    /\ IF pc \in InBareExcept
       THEN /\ AfterBareExcept
            /\ UNCHANGED <<outcome, printed, alarm>>
       ELSE IF pc \in InSession
       THEN /\ Raise("search_adjacent_dates", "search", "KeyboardInterrupt")
            /\ UNCHANGED <<alarm, branches, brIdx>>
       ELSE IF top = "search_commits_in_repo"
       THEN /\ Finish("KeyboardInterrupt")
            /\ UNCHANGED <<printed, alarm, branches, brIdx>>
       ELSE /\ CancelRange
            /\ UNCHANGED <<printed, branches, brIdx>>
    /\ UNCHANGED <<top, inputVars, mainVars, scanVars, sessVars, date, results,
                   range_total, search_times, repoIdx, returned, all_commits, result,
                   shown, queried, retrieved, iterCalls, timedOut, dialogue, invoked>>

(***************************************************************************)
(* Inputs and initial states.                                              *)
(***************************************************************************)
\* datetime.now()
Now == <<2024, 1, 5>>

Today == Ordinal(Now[1], Now[2], Now[3])

CodeProj == <<"code", "proj">>
ProjectsProj == <<"projects", "proj">>

\* a repository with two branches that share a commit
ProfA(allFails, branchFails) ==
    [refs |-> RefOrder, refsRaise |-> FALSE,
     heads |-> (<<"main">> :> {"c1", "c2", "c4"}) @@ (<<"feature">> :> {"c1", "c3"})
               @@ (<<"origin", "HEAD">> :> {"c1", "c2"}),
     allFails |-> allFails, branchFails |-> branchFails, openFails |-> FALSE]

\* a clone of it under the other base directory
ProfB ==
    [refs |-> << <<"main">> >>, refsRaise |-> FALSE,
     heads |-> (<<"main">> :> {"c1", "c2"}) @@ (<<"feature">> :> {})
               @@ (<<"origin", "HEAD">> :> {}),
     allFails |-> FALSE, branchFails |-> {}, openFails |-> FALSE]

\* the paths that may be handed to search_commits_in_repo
RepoPaths == {<<"code">>, CodeProj, ProjectsProj}

WorldOf(a) ==
    [p \in RepoPaths |->
        IF p = CodeProj THEN a ELSE IF p = ProjectsProj THEN ProfB ELSE NoRepo]

Worlds == {WorldOf(ProfA(f, bf)) : f \in BOOLEAN, bf \in {{}, {<<"main">>}}}

\* every backend one repository may have, for the query on its own
HeadSets == {{}, {"c1", "c3"}, {"c1", "c2"}}

Subseqs(s) == {SelectSeq(s, LAMBDA x : x \in S) : S \in SUBSET Range(s)}

QueryProfiles ==
    {[refs |-> rs, refsRaise |-> rr, heads |-> h, allFails |-> af,
      branchFails |-> bf, openFails |-> FALSE] :
        rs \in Subseqs(RefOrder), rr \in BOOLEAN, h \in [RefNames -> HeadSets],
        af \in BOOLEAN, bf \in SUBSET {<<"main">>, <<"feature">>}}
    \cup {[NoRepo EXCEPT !.openFails = TRUE]}

GitTree(G, cls) == [p \in OrdinaryDirs |-> IF p \in G THEN cls[p] ELSE "none"]

RepoLists == { <<CodeProj>>, <<CodeProj, ProjectsProj>>, << <<"code">>, CodeProj>> }

\* the sessions: one repository, or it and its clone
SessionRepoLists == { <<CodeProj>>, <<CodeProj, ProjectsProj>> }

SessionWorlds == {WorldOf(ProfA(FALSE, {})), WorldOf(ProfA(TRUE, {<<"main">>}))}

DateArgs ==
    { <<"2", "0", "2", "4", "-", "0", "1", "-", "0", "5">>,
      <<"2", "0", "2", "4", "-", "0", "1", "-", "0", "6">>,
      <<"2", "0", "2", "4", "-", "1", "-", "4">>,
      <<"2", "0", "2", "4", "-", "0", "2", "-", "3", "0">>,
      <<"2", "0", "2", "4", "-", "1", "3", "-", "0", "1">>,
      <<"2", "4", "-", "0", "1", "-", "0", "5">>,
      <<"2", "0", "2", "4", "/", "0", "1", "/", "0", "5">>,
      <<"2", "0", "2", "4", "-", "0", "1", "-", "0", "5", "x">>,
      <<>> }

NoDate == [given |-> FALSE, text |-> <<>>]

\* the state every run starts from, but for its inputs and its entry point
InitLocals ==
    /\ outcome = "running" /\ printed = <<>>
    /\ today = Today
    /\ stats = SearchStats
    /\ baseIdx = 1 /\ walk = <<>> /\ visited = <<>>
    /\ all_results = <<>> /\ days_to_expand = 1 /\ total_commits = 0
    /\ previous_total = 0 /\ seen_commits = {} /\ windows = <<>> /\ winIdx = 0
    /\ results = <<>> /\ range_total = 0 /\ search_times = <<>> /\ repoIdx = 1
    /\ alarm = "off" /\ returned = EmptyReturn
    /\ all_commits = <<>> /\ branches = <<>> /\ brIdx = 1 /\ result = NoResult
    /\ shown = <<>> /\ retrieved = {} /\ iterCalls = <<>> /\ timedOut = {}
    /\ dialogue = <<>> /\ invoked = <<>> /\ interrupts = <<>>
    /\ nSignals = 0

NoArgs == argDate = NoDate /\ argAuthor = Author

NoTree ==
    /\ rootExists = [b \in Range(DEFAULT_SEARCH_DIRS) |-> TRUE]
    /\ gitClass = [p \in OrdinaryDirs |-> "none"]

\* find_git_repos(DEFAULT_SEARCH_DIRS, stats) over every tree of the bounds
InitScan ==
    /\ InitLocals /\ NoArgs
    /\ top = "find_git_repos" /\ pc = "scan"
    /\ rootExists \in [Range(DEFAULT_SEARCH_DIRS) -> BOOLEAN]
    /\ \E G \in {S \in SUBSET OrdinaryDirs :
                    /\ Cardinality(S) <= MaxGitDirs
                    /\ \A p \in S : rootExists[<<p[1]>>]} :
         \E cls \in [G -> GitClasses] : gitClass = GitTree(G, cls)
    /\ backend = [p \in RepoPaths |-> NoRepo]
    /\ search_date = Today /\ repos = <<>> /\ date = Today /\ queried = <<>>

\* search_commits_in_repo(repo_path, date, author) over every backend
InitQuery ==
    /\ InitLocals /\ NoArgs /\ NoTree
    /\ top = "search_commits_in_repo" /\ pc = "q_open"
    /\ \E b \in QueryProfiles :
         backend = [p \in RepoPaths |-> IF p = CodeProj THEN b ELSE NoRepo]
    /\ repos = <<CodeProj>>
    /\ date \in {Today - 1, Today}
    /\ search_date = Today /\ queried = <<>>

\* search_date_range(repos, date, author, stats=stats)
InitRange ==
    /\ InitLocals /\ NoArgs /\ NoTree
    /\ top = "search_date_range" /\ pc = "r_loop"
    /\ backend \in Worlds
    /\ repos \in RepoLists
    /\ date \in {Today - 1, Today}
    /\ search_date = Today /\ queried = << <<0, date>> >>

\* search_adjacent_dates(repos, search_date, author, stats)
InitSession ==
    /\ InitLocals /\ NoArgs /\ NoTree
    /\ top = "search_adjacent_dates" /\ pc = "sad_start"
    /\ backend \in SessionWorlds
    /\ repos \in SessionRepoLists
    /\ search_date \in (Today - 1)..(Today + 2)
    /\ date = Today /\ queried = <<>>

\* main(date, author, ...) with the default search directories
Init ==
    /\ InitLocals
    /\ top = "main" /\ pc = "main"
    /\ argDate \in {NoDate} \cup {[given |-> TRUE, text |-> t] : t \in DateArgs}
    /\ argAuthor \in {None, "", Author}
    /\ rootExists \in {[b \in Range(DEFAULT_SEARCH_DIRS) |-> TRUE],
                       [b \in Range(DEFAULT_SEARCH_DIRS) |-> b = <<"code">>]}
    /\ gitClass \in {GitTree({}, <<>>),
                     GitTree({CodeProj}, CodeProj :> "valid"),
                     GitTree({CodeProj, <<"code">>},
                             (CodeProj :> "valid") @@ (<<"code">> :> "bare")),
                     GitTree({CodeProj, <<"code">>},
                             (CodeProj :> "valid") @@ (<<"code">> :> "invalid"))}
    /\ backend = WorldOf(ProfA(FALSE, {}))
    /\ search_date = Today /\ repos = <<>> /\ date = Today /\ queried = <<>>

QuerySteps ==
    \/ QOpen \/ QSize \/ GbOpen \/ GbRefs \/ GbProbe
    \/ QCheck \/ QIterAll \/ QIterBranch \/ QDedup

RangeSteps == RLoop \/ RRecord \/ RMerge \/ RExit

SessionSteps ==
    \/ SadStart \/ SadMerge \/ SadPresent
    \/ PromptDecline \/ PromptAccept \/ SadCancelled

ScanSteps == ScanBase \/ ScanVisit \/ ScanInterrupt \/ ScanReturn

NextScan == ScanSteps
NextQuery == QuerySteps \/ SigInt
NextRange == QuerySteps \/ RangeSteps \/ SigAlarm \/ SigInt
NextSession == QuerySteps \/ RangeSteps \/ SessionSteps \/ SigAlarm \/ SigInt
Next == MainStart \/ ScanSteps \/ QuerySteps \/ RangeSteps \/ SessionSteps
        \/ SigAlarm \/ SigInt

SpecScan == InitScan /\ [][NextScan]_vars
SpecQuery == InitQuery /\ [][NextQuery]_vars
SpecRange == InitRange /\ [][NextRange]_vars
SpecSession == InitSession /\ [][NextSession]_vars

\* a run of search_date_range in which the operator does not interrupt; the
\* interpreter goes on to the next statement as long as there is one
NextRangeUninterrupted == QuerySteps \/ RangeSteps \/ SigAlarm
SpecRangeUninterrupted ==
    InitRange /\ [][NextRangeUninterrupted]_vars /\ WF_vars(QuerySteps \/ RangeSteps)
Spec == Init /\ [][Next]_vars

(***************************************************************************)
(* Properties.                                                             *)
(***************************************************************************)
\* occurrences of x in the sequence s
Count(x, s) == Cardinality({i \in DOMAIN s : s[i] = x})

\* the displays (indices into shown) in which commit c is flagged new
FlaggedNewIn(c) ==
    {i \in DOMAIN shown : \E j \in DOMAIN shown[i] :
        shown[i][j][2] = c /\ shown[i][j][3]}

\* the lines of all displays on which commit c is flagged new
NewFlagLines(c) ==
    UNION {{<<i, j>> : j \in {n \in DOMAIN shown[i] : shown[i][n][2] = c /\ shown[i][n][3]}} :
             i \in DOMAIN shown}

ShownIn(c) == {i \in DOMAIN shown : \E j \in DOMAIN shown[i] : shown[i][j][2] = c}

\* C1: in one session of search_adjacent_dates a commit identifier is flagged
\* "new" on at most one line of at most one display, however often later
\* window searches find it again; an identifier flagged in one display is in
\* the seen set and is shown unflagged from then on.
C1_FlaggedNewAtMostOnce ==
    \A c \in Commits :
        /\ Cardinality(NewFlagLines(c)) <= 1
        /\ FlaggedNewIn(c) # {} => c \in seen_commits
        /\ \A i \in FlaggedNewIn(c) : \A k \in ShownIn(c) : i <= k

\* a second expansion round searched a day again whose commit the session had
\* already flagged, and displayed that commit a third time
C1_Witness ==
    /\ top = "search_adjacent_dates" /\ pc = "prompt" /\ days_to_expand = 3
    /\ \E c \in Commits :
        /\ \E i, j \in DOMAIN queried :
              i < j /\ queried[i][2] = CommitDay(c) /\ queried[j][2] = CommitDay(c)
        /\ \E t \in retrieved : t[3] = c
        /\ Cardinality(ShownIn(c)) >= 3
        /\ Cardinality(FlaggedNewIn(c)) = 1

\* the days search_date_range was called for in round k, in call order
RoundDates(k) ==
    LET calls == SelectSeq(queried, LAMBDA q : q[1] = k)
    IN [i \in DOMAIN calls |-> calls[i][2]]

IsPrefix(s, t) == Len(s) <= Len(t) /\ \A i \in DOMAIN s : s[i] = t[i]

\* C2 as stated: a completed round k searched exactly date-k and date+k.
C2_ExactlyMinusKPlusK ==
    pc = "sad_present" =>
        RoundDates(days_to_expand)
            = <<search_date - days_to_expand, search_date + days_to_expand>>

\* C2 as amended: round k searches date-k and then the earlier of date+k and
\* today, nothing else; a completed round searched both, a round cut short a
\* prefix of them; the second window is never after today.
C2_ExactlyMinusKClampedPlusK ==
    \A k \in 1..MaxRound + 1 :
        LET want == <<search_date - k, Min(search_date + k, today)>>
        IN /\ IsPrefix(RoundDates(k), want)
           /\ (pc = "sad_present" /\ k = days_to_expand) => RoundDates(k) = want
           /\ Len(RoundDates(k)) = 2 => RoundDates(k)[2] <= today

\* a round completed whose date+k lay after today
C2_Witness ==
    /\ pc = "sad_present"
    /\ search_date + days_to_expand > today
    /\ RoundDates(days_to_expand) = <<search_date - days_to_expand, today>>

NoDuplicates(seq) == \A i, j \in DOMAIN seq : seq[i] = seq[j] => i = j

UniquePerRepo(d) == \A i \in DOMAIN d : NoDuplicates(d[i].v)

\* C3: in the result search_date_range returns and in the cumulative result
\* of search_adjacent_dates no commit identifier occurs twice in the sequence
\* of one repository name.
C3_UniquePerRepository ==
    /\ UniquePerRepo(returned.results)
    /\ UniquePerRepo(all_results)

\* C4: a repository whose alarm fired while its query block ran contributes
\* no commit to the result of the window.
C4_TimedOutContributesNothing ==
    \A t \in retrieved : <<t[1], t[2]>> \notin timedOut

\* the commits the last display showed for a repository name
LastShown(name) ==
    IF shown = <<>> THEN {}
    ELSE {Last(shown)[j][2] : j \in {i \in DOMAIN Last(shown) : Last(shown)[i][1] = name}}

\* C5: when the session ends by SearchCancelled, every commit a query had
\* returned before the interrupt is in the cumulative result and displayed.
C5_PartialResultsSurvive ==
    (top = "search_adjacent_dates" /\ outcome = "SearchCancelled") =>
        \A t \in retrieved :
            /\ t[3] \in Range(DictGet(all_results, PathName(t[2])))
            /\ t[3] \in LastShown(PathName(t[2]))

\* C6: the list search_commits_in_repo returns holds every commit the
\* retrievals produced exactly once, whether the combined query or the
\* per-branch fallback produced it.
C6_ExactlyOneInstance ==
    (top = "search_commits_in_repo" /\ pc = "done" /\ outcome = "returned") =>
        /\ \A c \in Range(all_commits) : Count(c, result.commits) = 1
        /\ \A c \in Range(result.commits) : c \in Range(all_commits)
        /\ result.found <=> all_commits # <<>>

\* the fallback retrieved a commit from two branches and one instance is returned
C6_Witness ==
    /\ top = "search_commits_in_repo" /\ pc = "done" /\ outcome = "returned"
    /\ result.found
    /\ \E c \in Range(all_commits) :
          /\ Count(c, all_commits) >= 2
          /\ Count(c, result.commits) = 1
          /\ Cardinality({r \in Range(Backend.refs) : c \in Backend.heads[r]}) >= 2

\* no ref name resolves: opening or listing fails, or every ref ends with /HEAD
ZeroResolvableBranches(b) ==
    \/ b.openFails
    \/ b.refsRaise
    \/ \A i \in DOMAIN b.refs : EndsWithHEAD(b.refs[i])

\* C7: for a repository with zero resolvable branches search_commits_in_repo
\* calls iter_commits not once and, when it returns, returns None.
C7_NoBranchesNoResult ==
    (top = "search_commits_in_repo" /\ ZeroResolvableBranches(Backend)) =>
        /\ iterCalls = <<>>
        /\ outcome \in {"running", "returned", "KeyboardInterrupt"}
        /\ outcome = "returned" => ~result.found

\* the query of a repository whose only ref is origin/HEAD returned
C7_Witness ==
    /\ top = "search_commits_in_repo" /\ pc = "done" /\ outcome = "returned"
    /\ Backend.refs = << <<"origin", "HEAD">> >> /\ ~Backend.refsRaise
    /\ Backend.heads[<<"origin", "HEAD">>] # {}
    /\ ~result.found /\ iterCalls = <<>>

IsProperPrefix(s, t) == Len(s) < Len(t) /\ SubSeq(t, 1, Len(s)) = s

\* C8: no directory below a visited directory that holds a .git entry is
\* ever visited.
C8_NoDescentIntoRepository ==
    \A v, w \in Range(visited) :
        ~(IsDir(Append(v, ".git")) /\ IsProperPrefix(v, w))

StatsAllZero ==
    /\ stats.total_dirs_scanned = 0 /\ stats.total_dirs_skipped = 0
    /\ stats.total_git_dirs_found = 0 /\ stats.invalid_git_dirs = 0
    /\ stats.bare_repos = 0 /\ stats.repo_search_times = <<>>

InvalidInput ==
    \/ argAuthor \in {None, ""}
    \/ argDate.given /\ ~strptime(argDate.text).ok

\* C9: with a --date value that is no valid date, or without an author,
\* main scans no directory, runs no search, leaves every counter at zero
\* and ends after printing an error.
C9_ValidationPrecedesWork ==
    (top = "main" /\ InvalidInput) =>
        /\ visited = <<>> /\ queried = <<>> /\ StatsAllZero
        /\ pc \in {"main", "done"}
        /\ pc = "done" =>
              /\ outcome = "returned"
              /\ printed \in {<<"Error: --author/-a option is required">>,
                              <<"Error: Invalid date format. Please use YYYY-MM-DD">>}

\* C10: a run of main ends by returning or by exit status 0, never with an
\* exception nothing caught; an exit through sys.exit(0) has reported the
\* cancellation.
C10_CancellationExitsZero ==
    (top = "main" /\ pc = "done") =>
        /\ outcome \in {"returned", "exit 0"}
        /\ outcome = "exit 0" => Last(printed) = "Search cancelled by user"

\* the rounds in which a window was searched
RoundsSearched == {queried[i][1] : i \in DOMAIN queried}

\* C11: the session alternates presentation and prompt; a window of round
\* k >= 1 is searched only after round k-1 was presented and the prompt for
\* round k was answered "y"; after any other answer the session has returned,
\* no window of that round or a later one was searched and the cumulative
\* result is the one that was presented last.
C11_RoundsSequentialConsentGated ==
    top = "search_adjacent_dates" =>
        /\ \A i \in DOMAIN dialogue :
              IF i % 2 = 1
              THEN dialogue[i].ev = "presented" /\ dialogue[i].round = (i - 1) \div 2
              ELSE /\ dialogue[i].ev = "answer" /\ dialogue[i].round = i \div 2
                   /\ i < Len(dialogue) => dialogue[i].response = "y"
        /\ \A k \in RoundsSearched \ {0} :
              /\ 2 * k <= Len(dialogue)
              /\ dialogue[2 * k].response = "y"
        /\ (dialogue # <<>> /\ Last(dialogue).ev = "answer"
                /\ Last(dialogue).response # "y") =>
              /\ pc = "done" /\ outcome = "returned"
              /\ \A k \in RoundsSearched : k < Last(dialogue).round
              /\ all_results = Last(dialogue).cumulative
              /\ all_results = dialogue[Len(dialogue) - 1].cumulative

\* the operator accepted round 1, saw its results and declined round 2
C11_Witness ==
    /\ top = "search_adjacent_dates" /\ pc = "done" /\ outcome = "returned"
    /\ Len(dialogue) = 4
    /\ dialogue[2].response = "y" /\ dialogue[4].response # "y"
    /\ RoundsSearched = {0, 1}
    /\ all_results # <<>>

\* the branch names get_repo_branches resolves from a backend that lists its refs
ResolvedBranches(b) == SelectSeq(b.refs, LAMBDA n : ~EndsWithHEAD(n))

\* the commits of author and day on the resolved branches whose own query succeeds
FallbackUnion(b, author, day) ==
    {c \in Commits :
        /\ CommitAuthor(c) = author /\ CommitDay(c) = day
        /\ \E i \in DOMAIN ResolvedBranches(b) :
              /\ ResolvedBranches(b)[i] \notin b.branchFails
              /\ c \in b.heads[ResolvedBranches(b)[i]]}

\* the combined retrieval fails on a repository with a resolved branch, and
\* no signal is delivered
FallbackCase ==
    /\ top = "search_commits_in_repo" /\ nSignals = 0
    /\ ~Backend.openFails /\ ~Backend.refsRaise /\ Backend.allFails
    /\ ResolvedBranches(Backend) # <<>>

\* C12: when the combined retrieval fails, search_commits_in_repo queries
\* every resolved branch once, in order, after the combined attempt; it ends
\* by returning, never with the backend's exception; what it returns holds
\* exactly the commits of the branches whose own query succeeded, each once,
\* and is None when there are none.
C12_FallbackContained ==
    FallbackCase =>
        /\ outcome \in {"running", "returned"}
        /\ pc = "done" =>
              /\ iterCalls = << <<repo_path, <<"--all">> >> >>
                    \o [i \in DOMAIN ResolvedBranches(Backend) |->
                            <<repo_path, ResolvedBranches(Backend)[i]>>]
              /\ Range(result.commits) = FallbackUnion(Backend, Author, date)
              /\ NoDuplicates(result.commits)
              /\ result.found <=> FallbackUnion(Backend, Author, date) # {}
              /\ result.found => result.name = PathName(repo_path)

\* the combined retrieval and the query of main failed, and the commits
\* of feature were returned
C12_Witness ==
    /\ FallbackCase /\ pc = "done" /\ outcome = "returned"
    /\ Backend.branchFails = {<<"main">>}
    /\ <<"main">> \in Range(branches) /\ <<"feature">> \in Range(branches)
    /\ \E c \in Backend.heads[<<"main">>] : Matches(c, Author, date)
    /\ result.found /\ Range(result.commits) = FallbackUnion(Backend, Author, date)

\* C13: no window searched in an expansion round k >= 1 is for a day after
\* the current date, whatever the requested date.
C13_NoSearchIntoFuture ==
    \A i \in DOMAIN queried : queried[i][1] >= 1 => queried[i][2] <= today

\* C14: a SIGINT delivered while search_commits_in_repo runs under
\* search_date_range ends the loop with SearchCancelled, and after it no
\* iter_commits call is made and no repository is queried.
C14_InterruptDuringQueryHonored ==
    top = "search_date_range" =>
        \A i \in DOMAIN interrupts :
            interrupts[i].pos \in InQuery =>
                /\ pc = "done" /\ outcome = "SearchCancelled"
                /\ Len(iterCalls) = interrupts[i].calls
                /\ Len(invoked) = interrupts[i].queries

\* what stats holds after a run over rs in which no alarm fired: one
\* elapsed time below the deadline for each repository, whatever it returned
UntimedRunStats(rs) ==
    [SearchStats EXCEPT !.repo_search_times = [i \in DOMAIN rs |-> <<rs[i], FALSE>>]]

RangeReturned == top = "search_date_range" /\ pc = "done" /\ outcome = "returned"

\* every run that returns with no alarm fired leaves these statistics, also
\* when a query returned None
StatsOfUntimedRun ==
    (RangeReturned /\ timedOut = {}) => stats = UntimedRunStats(repos)

\* C15: the statistics after a run of search_date_range in which the alarm
\* of a repository fired differ from the statistics of the run in which that
\* repository's query returned None in time.
C15_TimeoutDistinctInStats ==
    (RangeReturned /\ timedOut # {}) => stats # UntimedRunStats(repos)

\* C16: in a run of search_date_range without an operator interrupt the
\* queries are invoked in list order, none twice, and the run eventually
\* returns with every repository of the list queried, whichever queries fail,
\* return None or time out.
C16_FailuresNeverAbort ==
    /\ [](IsPrefix(invoked, repos) /\ outcome \in {"running", "returned"})
    /\ <>(RangeReturned /\ invoked = repos)

\* a run returned in which the first repository has no branch, its alarm
\* fired, and the second repository's combined retrieval failed
C16_Witness ==
    /\ RangeReturned /\ invoked = repos
    /\ repos = << <<"code">>, CodeProj >>
    /\ timedOut = {<<date, <<"code">> >>}
    /\ backend[CodeProj].allFails
    /\ Len(iterCalls) >= 2

\* the repositories the recorded durations were measured for
TimedRepos(times) == [i \in DOMAIN times |-> times[i][1]]

\* C17: when a run of search_date_range without operator interrupt has
\* returned, the returned durations and stats.repo_search_times each hold
\* exactly one duration for every repository of the list, in list order.
C17_OneDurationPerRepository ==
    RangeReturned =>
        /\ Len(returned.times) = Len(repos)
        /\ Len(stats.repo_search_times) = Len(repos)
        /\ TimedRepos(returned.times) = repos
        /\ TimedRepos(stats.repo_search_times) = repos

\* the children of the visited directories whose name is in the skip set
SkipNamedChildren ==
    {<<i, n>> \in (DOMAIN visited) \X SKIP_DIRS : n \in Range(Children(visited[i]))}

\* C18: no visited directory has a name of the skip set at or above it
\* (below the base directory), and at the return of find_git_repos every
\* child of a visited directory with such a name was counted as skipped.
C18_SkipNamesPruned ==
    top = "find_git_repos" =>
        /\ \A i \in DOMAIN visited :
              \A j \in 2..Len(visited[i]) : visited[i][j] \notin SKIP_DIRS
        /\ (pc = "done" /\ outcome = "returned") =>
              stats.total_dirs_skipped = Cardinality(SkipNamedChildren)

\* git directories found = repositories collected + bare + invalid
ScanAccounting ==
    stats.total_git_dirs_found = Len(repos) + stats.bare_repos + stats.invalid_git_dirs

\* no counter of stats decreases and no recorded duration is removed
CountersMonotone ==
    /\ stats'.total_dirs_scanned >= stats.total_dirs_scanned
    /\ stats'.total_dirs_skipped >= stats.total_dirs_skipped
    /\ stats'.total_git_dirs_found >= stats.total_git_dirs_found
    /\ stats'.invalid_git_dirs >= stats.invalid_git_dirs
    /\ stats'.bare_repos >= stats.bare_repos
    /\ IsPrefix(stats.repo_search_times, stats'.repo_search_times)

\* C19: between the visits of find_git_repos and from its return on, git
\* directories found is repositories collected plus bare plus invalid
\* repositories, and no step of the session lowers a counter of stats.
C19_ScanAccounting ==
    /\ [](ScanAccounting)
    /\ [][CountersMonotone]_vars

\* the discovery found an invalid repository and a good one, and the search
\* recorded a duration
C19_Witness ==
    /\ top = "main" /\ pc \in InRange
    /\ stats.total_git_dirs_found = 2 /\ stats.invalid_git_dirs = 1
    /\ Len(repos) = 1 /\ stats.total_dirs_scanned >= 3
    /\ stats.repo_search_times # <<>>

\* the commit identifiers present in a result
IdsOf(d) == UNION {Range(d[i].v) : i \in DOMAIN d}

\* result e holds everything result d holds, in the same places
GrownFrom(d, e) ==
    /\ Len(d) <= Len(e)
    /\ \A i \in DOMAIN d : d[i].k = e[i].k /\ IsPrefix(d[i].v, e[i].v)

\* the presentations of the session, each followed by a prompt
Presentations == {i \in DOMAIN dialogue : dialogue[i].ev = "presented"}

\* C20: at every prompt of search_adjacent_dates the seen set is the set of
\* commit identifiers in the cumulative result, and from one prompt to the
\* next neither loses anything.
C20_SeenAgreesWithResult ==
    top = "search_adjacent_dates" =>
        /\ pc = "prompt" =>
              /\ seen_commits = IdsOf(all_results)
              /\ dialogue # <<>> /\ Last(dialogue).ev = "presented"
              /\ Last(dialogue).seen = seen_commits
              /\ Last(dialogue).cumulative = all_results
        /\ \A i \in Presentations : dialogue[i].seen = IdsOf(dialogue[i].cumulative)
        /\ \A i, j \in Presentations :
              i < j => /\ dialogue[i].seen \subseteq dialogue[j].seen
                       /\ GrownFrom(dialogue[i].cumulative, dialogue[j].cumulative)

\* the prompt after an expansion round that added commits to those of the
\* requested date and found one of them again
C20_Witness ==
    /\ top = "search_adjacent_dates" /\ pc = "prompt" /\ days_to_expand = 2
    /\ dialogue[1].seen # {}
    /\ dialogue[1].seen # seen_commits
    /\ seen_commits = IdsOf(all_results)
    /\ \E i \in DOMAIN queried : queried[i] = <<1, search_date>>

====
